---- MODULE Spec2Model ----
(***************************************************************************)
(* A model of singrep (src/src/main.rs): the main thread initialises the   *)
(* wordlist, spawns the workers, runs the Dispatcher loop read_wordlist,   *)
(* waits for the work queue to drain, enqueues one sentinel per worker and *)
(* joins them; every worker polls the work queue, scans its chunk line by  *)
(* line, buffers the matching lines and reports stats.                     *)
(*                                                                         *)
(* Bytes are their numeric values.  A file is a sequence of bytes, 1-based *)
(* here, so the source's mmap[i] is file[i + 1].                           *)
(*                                                                         *)
(* The Dispatcher's counter count is only ever read modulo check_thresh,   *)
(* and is kept modulo check_thresh.  The page cache itself (the effect of  *)
(* cache_file and uncache, --block) is not part of the state: of the       *)
(* window manager the model keeps cache_point and, as history, the calls   *)
(* of the last sliding-window step.  The work queue is unbounded in the    *)
(* source; here the Dispatcher waits while it holds MaxQueue chunks.       *)
(***************************************************************************)
EXTENDS Naturals, Sequences, FiniteSets, Bags

\* ------------------------------------------------------------- bounds ---
\* Longest file of the exhaustive family of input files.
MaxFileLen == 3
\* Largest --shard (chunk size) tried.
MaxChunk == 2
\* Most chunk messages the work queue holds before the Dispatcher is held back.
MaxQueue == 2
\* Cap of a worker's idle counter (stats.waits).
MaxWaits == 1
\* The --cache of the runs that do not vary it: no smaller than any file of
\* the model (the default, 2 GiB, plays this part for real wordlists).
BigCache == 256

\* -------------------------------------------------- program constants ---
NL == 10
Colon == 58
check_thresh == 50
updatethresh == 1
OutCap == 8192
KB == 1024
DefaultShard == 393728

\* The other bytes of the model are written as numbers: 97 and 98 are the
\* letters a and b, 40 and 41 the parentheses, 46 the dot.

\* ------------------------------------------------------------ helpers ---
RECURSIVE SeqsUpTo(_, _)
SeqsUpTo(S, n) ==
    IF n = 0 THEN {<<>>}
    ELSE LET shorter == SeqsUpTo(S, n - 1)
         IN  shorter \cup {Append(s, b) : s \in {t \in shorter : Len(t) = n - 1}, b \in S}

RECURSIVE Repeat(_, _)
Repeat(s, n) == IF n = 0 THEN <<>> ELSE s \o Repeat(s, n - 1)

\* format!("{}", n) of an unsigned integer: its decimal digits.
RECURSIVE Dec(_)
Dec(n) == IF n < 10 THEN <<48 + n>> ELSE Dec(n \div 10) \o <<48 + (n % 10)>>

\* The index of the first newline of s at or after index i, Len(s) + 1 when
\* there is none.  The search goes through s in blocks of 1024 bytes, so that
\* a line of some thousand bytes takes few nested steps.
RECURSIVE NextNL(_, _)
NextNL(s, i) ==
    IF i > Len(s) THEN Len(s) + 1
    ELSE LET hi == IF i + 1023 > Len(s) THEN Len(s) ELSE i + 1023
         IN  IF \E j \in i .. hi : s[j] = NL
             THEN CHOOSE j \in i .. hi : s[j] = NL /\ \A k \in i .. (j - 1) : s[k] # NL
             ELSE NextNL(s, hi + 1)

\* slice.split(|c| *c == 10): the runs between newlines, empty ones included.
RECURSIVE SplitFrom(_, _)
SplitFrom(s, i) ==
    LET j == NextNL(s, i)
    IN  IF j > Len(s) THEN <<SubSeq(s, i, Len(s))>>
        ELSE <<SubSeq(s, i, j - 1)>> \o SplitFrom(s, j + 1)

Split(s) == SplitFrom(s, 1)

\* message.split(..).filter(|l| !l.is_empty())
IsNonEmpty(l) == l # <<>>

\* Clears with the split left out: the chunk is scanned as one line.
ClearsUnsplit(message) == IF message = <<>> THEN <<>> ELSE <<message>>

Clears(message) == SelectSeq(Split(message), IsNonEmpty)

\* ------------------------------------------------------------ matcher ---
\* parse_tofind: the value and its two prefilter tables (as the sets of bytes
\* whose entry is true).
parse_tofind(tofind) ==
    [value  |-> tofind,
     start  |-> {tofind[1]},
     second |-> IF Len(tofind) > 1 THEN {tofind[2]} ELSE {}]

\* find without the final comparison: the prefilter tables decide.
findNoCompare(tofind, clear) ==
    IF clear[1] \notin tofind.start THEN FALSE
    ELSE IF Len(clear) > 1 /\ clear[2] \notin tofind.second THEN FALSE
    ELSE TRUE

find(tofind, clear) ==
    IF clear[1] \notin tofind.start THEN FALSE
    ELSE IF Len(clear) > 1 /\ clear[2] \notin tofind.second THEN FALSE
    ELSE tofind.value = clear

\* Windows that yields the first window only.
WindowsFirst(clear, n) ==
    {SubSeq(clear, i, i + n - 1) : i \in 1 .. (IF Len(clear) >= n THEN 1 ELSE 0)}

\* clear.windows(n): every contiguous run of n bytes of clear.
Windows(clear, n) ==
    {SubSeq(clear, i, i + n - 1) : i \in 1 .. (IF Len(clear) >= n THEN Len(clear) - n + 1 ELSE 0)}

\* Regex::new over the pattern alphabet of the model (literal bytes, '.', and
\* parentheses): it compiles iff its parentheses are balanced.
RECURSIVE ParenDepth(_, _, _)
ParenDepth(p, i, d) ==
    IF i > Len(p) THEN d
    ELSE IF p[i] = 40 THEN ParenDepth(p, i + 1, d + 1)
    ELSE IF p[i] = 41 THEN (IF d = 0 THEN 0 - 1 - Len(p) ELSE ParenDepth(p, i + 1, d - 1))
    ELSE ParenDepth(p, i + 1, d)

RegexCompiles(p) == ParenDepth(p, 1, 0) = 0

\* re.is_match(clear) for a compiled pattern of literals and '.': an unanchored
\* search; '.' matches any byte but a newline.
RegexTokens(p) == SelectSeq(p, LAMBDA c : c # 40 /\ c # 41)

is_match(p, clear) ==
    LET toks == RegexTokens(p)
        n == Len(toks)
    IN  \E i \in 1 .. (Len(clear) + 1) :
            /\ i + n - 1 <= Len(clear)
            /\ \A j \in 1 .. n :
                   \/ toks[j] = clear[i + j - 1]
                   \/ toks[j] = 46 /\ clear[i + j - 1] # NL

\* -------------------------------------------------------------- state ---
VARIABLES
    file,         \* the wordlist's bytes (Wordlist.mmap, Wordlist.length = Len(file))
    args,         \* the parsed command line (struct Args)
    threadnum,    \* num_cpus::get()
    pcMain,       \* where the main thread is
    cache_point,  \* Wordlist.cache_point
    pos,          \* read_wordlist: the cursor
    count,        \* read_wordlist: the checkin counter, kept modulo check_thresh
    stats,        \* the main thread's Stats
    sentinels,    \* main: how many None messages have been sent
    joined,       \* main: how many workers have been joined
    queue,        \* the work channel (tx, rx)
    statsq,       \* the stats channel (tx2, rx2)
    wpc,          \* per worker: where it is
    wclears,      \* per worker: the lines of its chunk still to scan
    wpos,         \* per worker: its local pos
    wout,         \* per worker: its output buffer out
    wstats,       \* per worker: its Stats
    stdout,       \* the bytes written to standard output
    sent,         \* history: every chunk message enqueued so far
    evicted,      \* history: the upto of the last uncache call (0 before the first)
    taken,        \* history: which worker received which chunk message
    since,        \* history: with --first, the chunks enqueued while a stats
                  \* report was waiting in the stats channel
    wwritten,     \* history, per worker: the bytes it has written to stdout
    wapp,         \* history, per worker: the records it has appended to out
    oscalls       \* history: the page-cache calls of the last sliding-window
                  \* step, in the order in which they were made

vars == <<file, args, threadnum, pcMain, cache_point, pos, count, stats, sentinels,
          joined, queue, statsq, wpc, wclears, wpos, wout, wstats, stdout, sent,
          evicted, taken, since, wwritten, wapp, oscalls>>

mainVars == <<pcMain, cache_point, pos, count, stats, sentinels, joined>>
workerVars == <<wpc, wclears, wpos, wout, wstats>>
inputVars == <<file, args, threadnum>>
histVars == <<evicted, taken, since, wwritten, wapp, oscalls>>

ZeroStats == [cracked |-> 0, hashed |-> 0, waits |-> 0, kbs |-> 0]

\* Option<(usize, Vec<u8>)>
Some(p, bytes) == [some |-> TRUE, pos |-> p, bytes |-> bytes]
None == [some |-> FALSE, pos |-> 0, bytes |-> <<>>]

Workers == 1 .. threadnum
length == Len(file)

\* ------------------------------------------------------------- inputs ---
\* The inputs of a run are the file, the command line and the number of
\* cores.  They are drawn from the union of a few families, each of which
\* varies some of them and fixes the others.
FileBytes == {NL, 97, 98}
Files == SeqsUpTo(FileBytes, MaxFileLen) \ {<<>>}

\* A file of check_thresh + 1 lines, of which lines 49 and 51 are "a": with
\* --shard 2 every line is a chunk of its own, and the Dispatcher's first
\* checkin comes right after it has enqueued the chunk after the first "a".
LongFile ==
    Repeat(<<98, NL>>, check_thresh - 2) \o <<97, NL, 98, NL, 97, NL>>

Patterns == {<<97>>, <<97, 98>>, <<46>>, <<40>>}


Args(tofind, exact, first, regex, verbose, position, cache, shard) ==
    [tofind |-> tofind, exact |-> exact, first |-> first, regex |-> regex,
     verbose |-> verbose, position |-> position, cache |-> cache, shard |-> shard]

\* Two workers, every small file, chunks of two bytes (the most chunks a file
\* can be cut into by a Dispatcher that advances).
PipelineInputs ==
    {[file |-> f, threadnum |-> 2,
      args |-> Args(<<97>>, FALSE, first, FALSE, TRUE, TRUE, BigCache, 2)] :
        f \in Files, first \in BOOLEAN}

\* One worker, every small file, every chunk size from one byte on.
ShardInputs ==
    {[file |-> f, threadnum |-> 1,
      args |-> Args(<<97>>, FALSE, first, FALSE, TRUE, TRUE, BigCache, shard)] :
        f \in Files, first \in BOOLEAN, shard \in 1 .. MaxChunk}

\* One worker, every small file, every pattern under every matching mode.
ModeInputs ==
    {[file |-> f, threadnum |-> 1,
      args |-> Args(tofind, exact, FALSE, regex, verbose, FALSE, BigCache, MaxChunk)] :
        f \in Files, tofind \in Patterns, exact \in BOOLEAN, regex \in BOOLEAN,
        verbose \in BOOLEAN}

\* One worker, the long file, small caches (a cache of one byte included).
CacheSizes == {1, 2, 4, 16}

CacheInputs ==
    {[file |-> LongFile, threadnum |-> 1,
      args |-> Args(<<97>>, FALSE, first, FALSE, TRUE, FALSE, cache, shard)] :
        first \in BOOLEAN, cache \in CacheSizes, shard \in 2 .. MaxChunk}

\* One worker, the default chunk size and a cache larger than the file, and a
\* file of three matching lines of which the first two make a buffer of
\* exactly OutCap bytes: a record of 2 bytes, one of OutCap - 2, one of 2.
BufferFile ==
    [i \in 1 .. OutCap + 2 |-> IF i \in {2, OutCap, OutCap + 2} THEN NL ELSE 97]

BufferInputs ==
    {[file |-> BufferFile, threadnum |-> 1,
      args |-> Args(<<97>>, FALSE, FALSE, FALSE, verbose, FALSE, DefaultShard, DefaultShard)] :
        verbose \in BOOLEAN}

Inputs ==
    PipelineInputs \cup ShardInputs \cup ModeInputs \cup CacheInputs \cup BufferInputs

Init ==
    /\ \E in \in Inputs :
           /\ file = in.file
           /\ args = in.args
           /\ threadnum = in.threadnum
    /\ pcMain = "initialise_wordlist"
    /\ cache_point = 0
    /\ pos = 0
    /\ count = 1
    /\ stats = ZeroStats
    /\ sentinels = 0
    /\ joined = 0
    /\ queue = <<>>
    /\ statsq = <<>>
    /\ wpc = <<>>
    /\ wclears = <<>>
    /\ wpos = <<>>
    /\ wout = <<>>
    /\ wstats = <<>>
    /\ stdout = <<>>
    /\ sent = {}
    /\ evicted = 0
    /\ taken = {}
    /\ since = 0
    /\ wwritten = <<>>
    /\ wapp = <<>>
    /\ oscalls = <<>>

\* -------------------------------------------------------- main thread ---
\* initialise_wordlist: the page-cache probe (mincore) is the environment's
\* answer; below 97% the start of the file is warmed.
initialise_wordlist ==
    /\ pcMain = "initialise_wordlist"
    /\ \E percent_cached \in {0, 100} :
           cache_point' = IF percent_cached < 97
                          THEN (IF length > args.cache THEN args.cache ELSE length)
                          ELSE length
    /\ pcMain' = "setup_workers"
    /\ UNCHANGED <<pos, count, stats, sentinels, joined, queue, statsq, stdout, sent>>
    /\ UNCHANGED workerVars
    /\ UNCHANGED inputVars
    /\ UNCHANGED histVars

\* setup_workers: Regex::new(&args.tofind).unwrap() comes first, whatever the
\* mode; then the channels are made and threadnum workers are spawned.
setup_workers ==
    /\ pcMain = "setup_workers"
    /\ IF RegexCompiles(args.tofind)
       THEN /\ pcMain' = "read_wordlist"
            /\ wpc' = [w \in Workers |-> "try_recv"]
            /\ wclears' = [w \in Workers |-> <<>>]
            /\ wpos' = [w \in Workers |-> 0]
            /\ wout' = [w \in Workers |-> <<>>]
            /\ wstats' = [w \in Workers |-> ZeroStats]
            /\ wwritten' = [w \in Workers |-> <<>>]
            /\ wapp' = [w \in Workers |-> <<>>]
       ELSE /\ pcMain' = "panicked"
            /\ UNCHANGED workerVars
            /\ UNCHANGED <<wwritten, wapp>>
    /\ UNCHANGED <<cache_point, pos, count, stats, sentinels, joined, queue, statsq,
                   stdout, sent>>
    /\ UNCHANGED inputVars
    /\ UNCHANGED <<evicted, taken, since, oscalls>>

\* read_wordlist, lines 430-437: the end of the chunk that starts at p.
RECURSIVE FindNewline(_)
FindNewline(to) ==
    IF file[to] # NL /\ to < length THEN FindNewline(to + 1) ELSE to

\* ChunkEnd with the newline search left out: the chunk ends after --shard bytes.
ChunkEndNoScan(p) == IF p + args.shard >= length THEN length ELSE p + args.shard

ChunkEnd(p) ==
    FindNewline(IF p + args.shard >= length THEN length ELSE p + args.shard)

\* read_wordlist, lines 476-481: the cache point after one sliding-window step.
\* NextCachePoint with the cap left out: the step may pass the end of the file.
NextCachePointUncapped(cp) == cp + (args.cache \div 2)

NextCachePoint(cp) ==
    IF cp + (args.cache \div 2) >= length THEN length ELSE cp + (args.cache \div 2)

AddStats(s, r) ==
    [s EXCEPT !.cracked = @ + r.cracked, !.hashed = @ + r.hashed, !.waits = @ + r.waits]

\* Lines 463-475: the calls of one sliding-window step, with the cursor at p
\* and the cache point at cp: uncache(.., pos), then cache_file(.., cache_size
\* / 2, block_size, cache_point).
\* SlideCalls with the two calls in the other order.
SlideCallsPrefetchFirst(p, cp) ==
    <<[op |-> "cache_file", arg |-> cp], [op |-> "uncache", arg |-> p]>>

SlideCalls(p, cp) ==
    <<[op |-> "uncache", arg |-> p], [op |-> "cache_file", arg |-> cp]>>

\* Line 454: the condition under which read_wordlist leaves its loop early.
\* CanExitEarly without the test of --first.
CanExitEarlyAlways(s) == s.cracked = 1

CanExitEarly(s) == s.cracked = 1 /\ args.first

\* One iteration of the loop of read_wordlist (lines 428-492).
Dispatch ==
    /\ pcMain = "read_wordlist"
    /\ pos < length - 1
    /\ Len(queue) < MaxQueue
    /\ LET to == ChunkEnd(pos)
           msg == Some(pos, SubSeq(file, pos + 1, to))
           newpos == to - 1
           kbstats == [stats EXCEPT !.kbs = @ + ((to - pos) \div KB)]
           checkin == count % check_thresh = 0 /\ statsq # <<>>
           newstats == IF checkin THEN AddStats(kbstats, Head(statsq)) ELSE kbstats
           early == checkin /\ CanExitEarly(newstats)
           half == args.cache \div 2
           slide == newpos % half <= args.shard /\ cache_point < length
       IN  /\ queue' = Append(queue, msg)
           /\ sent' = sent \cup {msg}
           /\ pos' = newpos
           /\ stats' = newstats
           /\ statsq' = IF checkin THEN Tail(statsq) ELSE statsq
           /\ since' = IF args.first /\ statsq # <<>> THEN since + 1 ELSE since
           /\ IF early
              THEN /\ pcMain' = "wait_empty"
                   /\ UNCHANGED <<count, cache_point, evicted, oscalls>>
              ELSE IF half = 0
              THEN /\ pcMain' = "panicked"
                   /\ count' = (count + 1) % check_thresh
                   /\ UNCHANGED <<cache_point, evicted, oscalls>>
              ELSE /\ pcMain' = "read_wordlist"
                   /\ count' = (count + 1) % check_thresh
                   /\ evicted' = IF slide THEN newpos ELSE evicted
                   /\ oscalls' = IF slide THEN SlideCalls(newpos, cache_point)
                                  ELSE oscalls
                   /\ cache_point' = IF slide THEN NextCachePoint(cache_point)
                                      ELSE cache_point
    /\ UNCHANGED <<sentinels, joined, stdout, taken, wwritten, wapp>>
    /\ UNCHANGED workerVars
    /\ UNCHANGED inputVars

\* The loop condition of read_wordlist fails: it returns Ok(stats).
ReadDone ==
    /\ pcMain = "read_wordlist"
    /\ ~(pos < length - 1)
    /\ pcMain' = "wait_empty"
    /\ UNCHANGED <<cache_point, pos, count, stats, sentinels, joined, queue, statsq,
                   stdout, sent>>
    /\ UNCHANGED workerVars
    /\ UNCHANGED inputVars
    /\ UNCHANGED histVars

\* WaitEmpty without the test of the work queue.
WaitEmptyNoTest ==
    /\ pcMain = "wait_empty"
    /\ pcMain' = "send_none"
    /\ UNCHANGED <<cache_point, pos, count, stats, sentinels, joined, queue, statsq,
                   stdout, sent>>
    /\ UNCHANGED workerVars
    /\ UNCHANGED inputVars
    /\ UNCHANGED histVars

\* main, lines 542-547: leave the wait loop once the work queue is empty.
WaitEmpty ==
    /\ pcMain = "wait_empty"
    /\ queue = <<>>
    /\ pcMain' = "send_none"
    /\ UNCHANGED <<cache_point, pos, count, stats, sentinels, joined, queue, statsq,
                   stdout, sent>>
    /\ UNCHANGED workerVars
    /\ UNCHANGED inputVars
    /\ UNCHANGED histVars

\* main, lines 549-551: one tx.send(None).
SendNone ==
    /\ pcMain = "send_none"
    /\ sentinels < threadnum
    /\ queue' = Append(queue, None)
    /\ sentinels' = sentinels + 1
    /\ pcMain' = IF sentinels + 1 = threadnum THEN "join" ELSE "send_none"
    /\ UNCHANGED <<cache_point, pos, count, stats, joined, statsq, stdout, sent>>
    /\ UNCHANGED workerVars
    /\ UNCHANGED inputVars
    /\ UNCHANGED histVars

\* main, lines 554-556: thread.join() of the next worker, in spawn order.
Join ==
    /\ pcMain = "join"
    /\ joined < threadnum
    /\ wpc[joined + 1] = "exited"
    /\ joined' = joined + 1
    /\ pcMain' = IF joined + 1 = threadnum THEN "totals" ELSE "join"
    /\ UNCHANGED <<cache_point, pos, count, stats, sentinels, queue, statsq, stdout, sent>>
    /\ UNCHANGED workerVars
    /\ UNCHANGED inputVars
    /\ UNCHANGED histVars

\* main, lines 558-590: with --verbose the stats channel is drained into the
\* totals; then main returns Ok(()).
\* SumStats that takes one message only off the stats channel.
SumStatsOnce(s, q) == IF q = <<>> THEN s ELSE AddStats(s, Head(q))

RECURSIVE SumStats(_, _)
SumStats(s, q) == IF q = <<>> THEN s ELSE SumStats(AddStats(s, Head(q)), Tail(q))

Totals ==
    /\ pcMain = "totals"
    /\ IF args.verbose
       THEN /\ stats' = SumStats(stats, statsq)
            /\ statsq' = <<>>
       ELSE UNCHANGED <<stats, statsq>>
    /\ pcMain' = "done"
    /\ UNCHANGED <<cache_point, pos, count, sentinels, joined, queue, stdout, sent>>
    /\ UNCHANGED workerVars
    /\ UNCHANGED inputVars
    /\ UNCHANGED histVars

\* ------------------------------------------------------------ workers ---
\* The process is alive: a panic of the main thread ends it, and so does
\* main's return.
Running == pcMain \notin {"initialise_wordlist", "setup_workers", "panicked", "done"}

\* Lines 349-362: does the line match under the selected mode?
Found(clear) ==
    IF args.regex THEN is_match(args.tofind, clear)
    ELSE IF args.exact THEN find(parse_tofind(args.tofind), clear)
    ELSE \E sub \in Windows(clear, Len(args.tofind)) : find(parse_tofind(args.tofind), sub)

\* Lines 366-372: what a match appends to the output buffer.
Record(position, p, clear) ==
    (IF position THEN Dec(p - Len(clear) - 1) \o <<Colon>> ELSE <<>>) \o clear \o <<NL>>

\* The work channel after try_recv() has returned its head (line 327).
\* AfterRecv for a receive that leaves the message in the channel.
AfterRecvPeek(q) == q

AfterRecv(q) == Tail(q)

\* rx_thread.try_recv() returns a message (line 327): on None the buffer is
\* written, the stats are sent and the worker leaves its loop; on a chunk the
\* worker starts to scan it.
WorkerRecv(w) ==
    /\ Running
    /\ wpc[w] = "try_recv"
    /\ queue # <<>>
    /\ queue' = AfterRecv(queue)
    /\ LET recv == Head(queue)
       IN  IF ~recv.some
           THEN /\ stdout' = stdout \o wout[w]
                /\ wwritten' = [wwritten EXCEPT ![w] = @ \o wout[w]]
                /\ statsq' = Append(statsq, wstats[w])
                /\ wpc' = [wpc EXCEPT ![w] = "exited"]
                /\ UNCHANGED <<wclears, wpos, wout, wstats, taken>>
           ELSE /\ wclears' = [wclears EXCEPT ![w] = Clears(recv.bytes)]
                /\ wpos' = [wpos EXCEPT ![w] = recv.pos]
                /\ wpc' = [wpc EXCEPT ![w] = IF Clears(recv.bytes) = <<>> THEN "is_empty" ELSE "scan"]
                /\ taken' = taken \cup {[msg |-> recv, w |-> w]}
                /\ UNCHANGED <<wout, wstats, stdout, statsq, wwritten>>
    /\ UNCHANGED <<sent, evicted, since, wapp, oscalls>>
    /\ UNCHANGED mainVars
    /\ UNCHANGED inputVars

\* rx_thread.try_recv() finds the channel empty.
WorkerRecvNothing(w) ==
    /\ Running
    /\ wpc[w] = "try_recv"
    /\ queue = <<>>
    /\ wpc' = [wpc EXCEPT ![w] = "is_empty"]
    /\ UNCHANGED <<wclears, wpos, wout, wstats, queue, statsq, stdout, sent>>
    /\ UNCHANGED mainVars
    /\ UNCHANGED inputVars
    /\ UNCHANGED histVars

\* Lines 376-377: the buffer after it has been written out at the threshold.
\* AfterFlush without the clear: the buffer keeps what has been written.
AfterFlushKept(out) == out

AfterFlush(out) == <<>>

\* One iteration of the for loop over the lines of the chunk (lines 338-386).
WorkerLine(w) ==
    /\ Running
    /\ wpc[w] = "scan"
    /\ LET clear == Head(wclears[w])
           p == wpos[w] + Len(clear) + 1
           hashed == [wstats[w] EXCEPT !.hashed = @ + 1]
           cracked == [hashed EXCEPT !.cracked = @ + 1]
           appended == wout[w] \o Record(args.position, p, clear)
           flush == Len(appended) >= OutCap
           update == cracked.cracked = updatethresh
       IN  /\ wpos' = [wpos EXCEPT ![w] = p]
           /\ wclears' = [wclears EXCEPT ![w] = Tail(@)]
           /\ wpc' = [wpc EXCEPT ![w] = IF Tail(wclears[w]) = <<>> THEN "is_empty" ELSE "scan"]
           /\ IF Found(clear)
              THEN /\ wout' = [wout EXCEPT ![w] = IF flush THEN AfterFlush(appended)
                                                ELSE appended]
                   /\ stdout' = IF flush THEN stdout \o appended ELSE stdout
                   /\ wwritten' = IF flush THEN [wwritten EXCEPT ![w] = @ \o appended]
                                   ELSE wwritten
                   /\ wapp' = [wapp EXCEPT ![w] = @ \o Record(args.position, p, clear)]
                   /\ statsq' = IF update THEN Append(statsq, cracked) ELSE statsq
                   /\ wstats' = [wstats EXCEPT ![w] =
                                     IF update THEN [cracked EXCEPT !.cracked = 0, !.hashed = 0]
                                     ELSE cracked]
              ELSE /\ wstats' = [wstats EXCEPT ![w] = hashed]
                   /\ UNCHANGED <<wout, stdout, statsq, wwritten, wapp>>
    /\ UNCHANGED <<queue, sent, evicted, taken, since, oscalls>>
    /\ UNCHANGED mainVars
    /\ UNCHANGED inputVars

\* Lines 389-393: the channel is empty, so the worker counts a wait and sleeps.
WorkerSleep(w) ==
    /\ Running
    /\ wpc[w] = "is_empty"
    /\ queue = <<>>
    /\ wstats[w].waits < MaxWaits
    /\ wstats' = [wstats EXCEPT ![w].waits = @ + 1]
    /\ UNCHANGED <<wpc, wclears, wpos, wout, queue, statsq, stdout, sent>>
    /\ UNCHANGED mainVars
    /\ UNCHANGED inputVars
    /\ UNCHANGED histVars

\* Lines 389 and 325: the channel is not empty, so the worker polls again.
WorkerWake(w) ==
    /\ Running
    /\ wpc[w] = "is_empty"
    /\ queue # <<>>
    /\ wpc' = [wpc EXCEPT ![w] = "try_recv"]
    /\ UNCHANGED <<wclears, wpos, wout, wstats, queue, statsq, stdout, sent>>
    /\ UNCHANGED mainVars
    /\ UNCHANGED inputVars
    /\ UNCHANGED histVars

Next ==
    \/ initialise_wordlist
    \/ setup_workers
    \/ Dispatch
    \/ ReadDone
    \/ WaitEmpty
    \/ SendNone
    \/ Join
    \/ Totals
    \/ \E w \in Workers : WorkerRecv(w)
    \/ \E w \in Workers : WorkerRecvNothing(w)
    \/ \E w \in Workers : WorkerLine(w)
    \/ \E w \in Workers : WorkerSleep(w)
    \/ \E w \in Workers : WorkerWake(w)

Spec == Init /\ [][Next]_vars

\* ------------------------------------------------------- observations ---
\* The run has completed: main has joined every worker and returned.
Completed == pcMain = "done"

\* The lines of the file: the maximal non-empty runs of bytes without a
\* newline, each with the offset of its first byte.
LineStarts == {o \in 0 .. length - 1 : file[o + 1] # NL /\ (o = 0 \/ file[o] = NL)}

\* The 1-based index of the last byte of the line that has a byte at index i.
LineEnd(i) == NextNL(file, i + 1) - 1

FileLines == {[off |-> o, line |-> SubSeq(file, o + 1, LineEnd(o + 1))] : o \in LineStarts}

\* What the command line asks for: regex search, whole-line equality or
\* containment of the pattern.
Contains(line, value) ==
    \E i \in 1 .. Len(line) : i + Len(value) - 1 <= Len(line)
                              /\ SubSeq(line, i, i + Len(value) - 1) = value

Matches(line) ==
    IF args.regex THEN is_match(args.tofind, line)
    ELSE IF args.exact THEN line = args.tofind
    ELSE Contains(line, args.tofind)

MatchingLines == {fl \in FileLines : Matches(fl.line)}

\* Standard output cut into records: the runs that a newline ends, and what
\* follows the last newline.
RecordsOf(out) == SubSeq(Split(out), 1, Len(Split(out)) - 1)
OutRecords == RecordsOf(stdout)
OutRest == Split(stdout)[Len(Split(stdout))]

\* A record with --position is <decimal>:<line>; without, it is the line.
ColonAt(rec) ==
    IF \E i \in 1 .. Len(rec) : rec[i] = Colon
    THEN CHOOSE i \in 1 .. Len(rec) : rec[i] = Colon /\ \A j \in 1 .. i - 1 : rec[j] # Colon
    ELSE 0

PrefixOf(rec) == SubSeq(rec, 1, ColonAt(rec) - 1)
LineOf(rec) == IF args.position THEN SubSeq(rec, ColonAt(rec) + 1, Len(rec)) ELSE rec

IsDecimal(d) == d # <<>> /\ \A i \in 1 .. Len(d) : d[i] \in 48 .. 57

RECURSIVE DecimalValue(_)
DecimalValue(d) ==
    IF d = <<>> THEN 0 ELSE 10 * DecimalValue(SubSeq(d, 1, Len(d) - 1)) + (d[Len(d)] - 48)

\* How many records of standard output carry the line.
TimesWritten(line) == Cardinality({i \in 1 .. Len(OutRecords) : LineOf(OutRecords[i]) = line})
\* How many lines of the file are the line.
TimesInFile(line) == Cardinality({fl \in FileLines : fl.line = line})

\* ------------------------------------------------------------- claims ---
\* C1 (completeness): when --first is off and the run has completed, every
\* non-empty line of the file that matches under the selected mode has been
\* written to standard output at least once.
C1_Completeness ==
    (Completed /\ ~args.first) =>
        \A fl \in MatchingLines : TimesWritten(fl.line) >= 1

\* C1 holds of every file of two bytes and more.
C1_CompletenessFromTwoBytes ==
    (Completed /\ ~args.first /\ length >= 2) =>
        \A fl \in MatchingLines : TimesWritten(fl.line) >= 1

\* A completed run on a one-byte file which is a matching line.
C1_OneByteFile ==
    Completed /\ ~args.first /\ length = 1 /\ MatchingLines # {}

\* C2 (multiset equality): when --first is off and the run has completed, a
\* matching line is written as many times as it occurs in the file, and no
\* other line is written.
C2_MultisetEquality ==
    (Completed /\ ~args.first) =>
        /\ \A fl \in MatchingLines : TimesWritten(fl.line) = TimesInFile(fl.line)
        /\ \A i \in 1 .. Len(OutRecords) :
               \E fl \in MatchingLines : fl.line = LineOf(OutRecords[i])

\* C2 holds of every file of two bytes and more: the byte that consecutive
\* chunks share is a newline, and no line is scanned twice.
C2_MultisetEqualityFromTwoBytes ==
    (Completed /\ ~args.first /\ length >= 2) =>
        /\ \A fl \in MatchingLines : TimesWritten(fl.line) = TimesInFile(fl.line)
        /\ \A i \in 1 .. Len(OutRecords) :
               \E fl \in MatchingLines : fl.line = LineOf(OutRecords[i])

\* C3 (position correctness): with --position, the decimal number before the
\* colon of every record written is the offset in the file of the first byte
\* of a line equal to the record's line.
C3_PositionCorrect ==
    args.position =>
        \A i \in 1 .. Len(OutRecords) :
            LET rec == OutRecords[i]
            IN  /\ ColonAt(rec) > 0
                /\ IsDecimal(PrefixOf(rec))
                /\ [off |-> DecimalValue(PrefixOf(rec)), line |-> LineOf(rec)] \in FileLines

\* C4 (first-mode safety): with --first, the output of a completed run holds
\* at most one matching line.
C4_FirstAtMostOne ==
    (Completed /\ args.first) => Len(OutRecords) <= 1

ChunkStop(m) == m.pos + Len(m.bytes)

\* A line is split at offset b when the bytes before b and at b both belong to
\* it, that is, neither is a newline.
SplitsLine(b) == 0 < b /\ b < length /\ file[b] # NL /\ file[b + 1] # NL

\* C5 (chunk boundary law): every chunk enqueued is a slice of the file that
\* ends with a newline or at the end of the file, and no line of the file is
\* split by the start or the end of a chunk.
C5_ChunkBoundary ==
    \A m \in sent :
        /\ m.bytes # <<>>
        /\ m.bytes = SubSeq(file, m.pos + 1, ChunkStop(m))
        /\ ChunkStop(m) = length \/ file[ChunkStop(m)] = NL
        /\ ~SplitsLine(m.pos)
        /\ ~SplitsLine(ChunkStop(m))

\* A chunk that the search for a newline made longer than --shard, and that
\* ends inside the file.
C5_ChunkExtendedToNewline ==
    \E m \in sent : Len(m.bytes) > args.shard /\ ChunkStop(m) < length

\* C6 (monotone cache point): cache_point starts in 0 .. length, never
\* decreases and never exceeds the length of the file.
C6_MonotoneCachePoint ==
    /\ cache_point \in 0 .. length
    /\ [][cache_point' >= cache_point /\ cache_point' \in 0 .. length]_vars

\* The sliding window has moved the cache point past the first cache_size
\* bytes, and not yet to the end of the file.
C6_WindowSlid ==
    pcMain = "read_wordlist" /\ cache_point > args.cache /\ cache_point < length

RECURSIVE ChunksFrom(_, _)
ChunksFrom(p, fuel) ==
    IF ~(p < length - 1) \/ fuel = 0 THEN <<>>
    ELSE <<Some(p, SubSeq(file, p + 1, ChunkEnd(p)))>> \o ChunksFrom(ChunkEnd(p) - 1, fuel - 1)

RECURSIVE ScanRecords(_, _)
ScanRecords(clears, p) ==
    IF clears = <<>> THEN <<>>
    ELSE LET clear == Head(clears)
             q == p + Len(clear) + 1
         IN  (IF Found(clear) THEN Record(args.position, q, clear) ELSE <<>>)
                 \o ScanRecords(Tail(clears), q)

RECURSIVE AllRecords(_)
AllRecords(chunks) ==
    IF chunks = <<>> THEN <<>>
    ELSE ScanRecords(Clears(Head(chunks).bytes), Head(chunks).pos) \o AllRecords(Tail(chunks))

FullRunRecords == RecordsOf(AllRecords(ChunksFrom(0, length)))

BagOfSeq(q) ==
    [x \in {q[i] : i \in 1 .. Len(q)} |-> Cardinality({i \in 1 .. Len(q) : q[i] = x})]

\* C8 (determinism): the records of a completed run are, as a multiset, a
\* function of the file and the arguments.  The run that enqueues every chunk
\* is one of the completed runs (C8_FullRunWithFirst reaches it), so every
\* completed run has to agree with it.
C8_Determinism ==
    Completed => BagOfSeq(OutRecords) = BagOfSeq(FullRunRecords)

\* A completed --first run on the long file that has written the records of
\* the full run.
C8_FullRunWithFirst ==
    /\ Completed /\ args.first /\ file = LongFile /\ args.shard = 2
    /\ BagOfSeq(OutRecords) = BagOfSeq(FullRunRecords)

\* Without --first the records of a completed run are those of the full run.
C8_DeterminismWithoutFirst ==
    (Completed /\ ~args.first) => BagOfSeq(OutRecords) = BagOfSeq(FullRunRecords)

\* C9 (termination): under fair scheduling of the main thread and of every
\* worker the run ends: main joins every worker and returns (or the process
\* has been aborted by a panic).
C9_Termination == <>(pcMain \in {"done", "panicked"})

\* With chunks of two bytes and more every fair run ends.
C9_TerminationFromTwoByteChunks ==
    args.shard >= 2 => <>(pcMain \in {"done", "panicked"})

\* C10: with --regex off, a pattern that does not compile as a regular
\* expression does not abort the run.
C10_LiteralPatternNeverAborts ==
    ~args.regex => ~(pcMain = "panicked" /\ ~RegexCompiles(args.tofind))

\* Fair scheduling: the main thread and every worker are OS threads, each of
\* which keeps running while it has a step to take.
MainNext ==
    \/ initialise_wordlist
    \/ setup_workers
    \/ Dispatch
    \/ ReadDone
    \/ WaitEmpty
    \/ SendNone
    \/ Join
    \/ Totals

WorkerNext(w) ==
    \/ WorkerRecv(w)
    \/ WorkerRecvNothing(w)
    \/ WorkerLine(w)
    \/ WorkerSleep(w)
    \/ WorkerWake(w)

FairSpec ==
    /\ Init
    /\ [][Next]_vars
    /\ WF_vars(MainNext)
    /\ \A w \in {1, 2} : WF_vars(w \in Workers /\ WorkerNext(w))

\* C11 (cursor within the cache point): after every iteration of the
\* Dispatcher's loop the read cursor is not past the cache point.
C11_PosWithinCachePoint ==
    pcMain = "read_wordlist" => pos <= cache_point

\* C11 holds of the runs whose cache is no smaller than the file.
C11_PosWithinCachePointWholeFile ==
    (pcMain = "read_wordlist" /\ args.cache >= length) => pos <= cache_point

\* The length of the longest chunk the Dispatcher cuts from the file.
RECURSIVE LongestOf(_)
LongestOf(chunks) ==
    IF chunks = <<>> THEN 0
    ELSE LET rest == LongestOf(Tail(chunks))
         IN  IF Len(Head(chunks).bytes) > rest THEN Len(Head(chunks).bytes) ELSE rest

LongestChunk == LongestOf(ChunksFrom(0, length))

\* C12 (bounded resident window): the resident window, from the upto of the
\* last uncache call (0 before the first) to the cache point, is never larger
\* than the cache size plus the length of one chunk.
C12_BoundedWindow ==
    \/ cache_point <= evicted + args.cache
    \/ cache_point <= evicted + args.cache + LongestChunk

\* A step of the sliding window has left more than the cache size and one
\* chunk between the last uncache and the cache point.
C12_WindowOverCache ==
    /\ pcMain = "read_wordlist" /\ evicted > 0 /\ cache_point < length
    /\ cache_point > evicted + args.cache + LongestChunk

\* C13 (strictly increasing offsets): every iteration of the Dispatcher's
\* loop leaves the cursor, which is the offset of the next chunk, strictly
\* greater than the offset of the chunk it has enqueued.
C13_StrictlyIncreasingOffsets ==
    [][Dispatch => pos' > pos]_vars

\* With chunks of two bytes and more the offsets strictly increase.
C13_IncreasingFromTwoByteChunks ==
    [][(Dispatch /\ args.shard >= 2) => pos' > pos]_vars

\* The workers that have left their loop, and the messages of each kind in
\* the work queue.
Exited == {w \in DOMAIN wpc : wpc[w] = "exited"}
NonesInQueue == {i \in 1 .. Len(queue) : ~queue[i].some}
ChunksInQueue == {i \in 1 .. Len(queue) : queue[i].some}

\* C14 (sentinel protocol): main enqueues exactly threadnum sentinels, the
\* first one when read_wordlist has returned and the work queue is empty; a
\* worker leaves its loop only by taking one sentinel off the queue, and then
\* sends one stats message; every sentinel enqueued is in the queue or has
\* been taken by a worker that exited, so none is left when all have exited.
C14_SentinelProtocol ==
    /\ [](/\ sentinels <= threadnum
          /\ sentinels > 0 => pcMain \in {"send_none", "join", "totals", "done"}
          /\ pcMain \in {"join", "totals", "done"} => sentinels = threadnum
          /\ NonesInQueue # {} => ChunksInQueue = {}
          /\ sentinels = Cardinality(NonesInQueue) + Cardinality(Exited)
          /\ Cardinality(Exited) = threadnum => queue = <<>>)
    /\ [][/\ (sentinels = 0 /\ sentinels' > 0) =>
               (pcMain = "send_none" /\ queue = <<>> /\ sentinels' = 1)
           /\ \A w \in DOMAIN wpc :
                  /\ (wpc[w] # "exited" /\ wpc'[w] = "exited") =>
                         (/\ queue # <<>> /\ ~Head(queue).some /\ queue' = Tail(queue)
                          /\ statsq' = Append(statsq, wstats[w]))
                  /\ wpc[w] = "exited" =>
                         (wpc'[w] = "exited" /\ wstats'[w] = wstats[w])]_vars

\* Two workers have each taken a sentinel and exited, and the queue is empty.
C14_AllExited ==
    threadnum = 2 /\ Exited = Workers /\ sentinels = 2 /\ queue = <<>>

\* The chunk messages that workers have received.
TakenMsgs == {r.msg : r \in taken}

\* C15 (every chunk scanned once): a chunk that has been enqueued is in the
\* work queue or has been received; a receive takes the chunk at the head off
\* the queue and hands it to one worker, and no chunk is received by two
\* workers; a worker that has exited has scanned its chunks to the end, and
\* when every worker has exited every chunk enqueued has been received and
\* none is left in the queue or half-scanned, with and without --first.
C15_EveryChunkScannedOnce ==
    /\ [](/\ \A m \in sent : m \in TakenMsgs \/ \E i \in ChunksInQueue : queue[i] = m
          /\ TakenMsgs \subseteq sent
          /\ \A r1 \in taken : \A r2 \in taken : r1.msg = r2.msg => r1.w = r2.w
          /\ \A w \in Exited : wclears[w] = <<>>
          /\ Cardinality(Exited) = threadnum =>
                 (/\ ChunksInQueue = {}
                  /\ TakenMsgs = sent
                  /\ \A w \in DOMAIN wpc : wclears[w] = <<>>))
    /\ [][\A w \in DOMAIN wpc :
              (wpc[w] = "try_recv" /\ wpc'[w] \in {"scan", "is_empty"} /\ queue # <<>>) =>
                  (/\ Head(queue).some
                   /\ queue' = Tail(queue)
                   /\ taken' = taken \cup {[msg |-> Head(queue), w |-> w]}
                   /\ wclears'[w] = Clears(Head(queue).bytes)
                   /\ \A v \in DOMAIN wpc \ {w} :
                          wpc'[v] = wpc[v] /\ wclears'[v] = wclears[v])]_vars

\* A --first run in which the Dispatcher stopped early has completed: every
\* chunk it had enqueued has been received.
C15_EarlyStopAllScanned ==
    /\ Completed /\ args.first /\ pos < length - 1
    /\ sent # {} /\ TakenMsgs = sent

\* Two workers have exited after each of them has received a chunk.
C15_TwoWorkersShared ==
    /\ Cardinality(Exited) = 2
    /\ \E r1 \in taken : \E r2 \in taken : r1.w # r2.w

\* C16 (early termination): an iteration of the Dispatcher's loop ends the
\* loop early exactly when --first is set, the iteration is a checkin (every
\* check_thresh-th) and a stats report is waiting in the stats channel; so
\* with --first at most check_thresh chunks are enqueued while a report is
\* waiting, and without --first a report never stops the Dispatcher.
C16_EarlyTermination ==
    /\ [](since <= check_thresh)
    /\ [][Dispatch =>
              /\ (pcMain' = "wait_empty") <=>
                     (args.first /\ count % check_thresh = 0 /\ statsq # <<>>)
              /\ (count % check_thresh = 0 /\ statsq # <<>>) => statsq' = Tail(statsq)
              /\ ~(count % check_thresh = 0) => statsq' = statsq]_vars

\* The Dispatcher has stopped early, at a checkin before which it had
\* enqueued several chunks while the report was waiting.
C16_StoppedEarly ==
    /\ pcMain = "wait_empty" /\ args.first /\ pos < length - 1
    /\ 2 * since > check_thresh

\* The non-empty lines of the chunks that have been enqueued.
RECURSIVE LinesOf(_)
LinesOf(msgs) ==
    IF msgs = {} THEN 0
    ELSE LET m == CHOOSE x \in msgs : TRUE
         IN  Len(Clears(m.bytes)) + LinesOf(msgs \ {m})

\* C17 (totals of matches and lines): when a --verbose run has completed, the
\* total cracked is the number of records written by the workers and the
\* total hashed is the number of non-empty lines of the chunks they scanned,
\* whichever of the Dispatcher's checkin and main's final loop received a
\* stats message.
C17_StatsTotals ==
    (Completed /\ args.verbose) =>
        /\ stats.cracked = Len(OutRecords)
        /\ stats.hashed = LinesOf(sent)
        /\ statsq = <<>>

\* A completed --verbose run over the long file: two matches in 51 lines.
C17_LongFileTotals ==
    /\ Completed /\ args.verbose /\ file = LongFile /\ ~args.first
    /\ stats.cracked = 2 /\ stats.hashed = check_thresh + 1

\* A completed --verbose run in which two workers have each reported a match.
C17_TwoWorkersTotals ==
    /\ Completed /\ args.verbose /\ threadnum = 2 /\ stats.cracked = 2
    /\ \A w \in Workers : \E r \in taken : r.w = w

\* The idle-polling hits of the workers: a worker's own counter is never
\* reset, so it is the number of hits of that worker.
RECURSIVE WaitsOf(_)
WaitsOf(ws) ==
    IF ws = {} THEN 0
    ELSE LET w == CHOOSE x \in ws : TRUE
         IN  wstats[w].waits + WaitsOf(ws \ {w})

\* C18 (total of waits): when a --verbose run has completed, the total waits
\* is the number of idle-polling hits of all workers, each counted once.
C18_WaitsTotal ==
    (Completed /\ args.verbose) => stats.waits = WaitsOf(DOMAIN wstats)

\* C18 holds of the runs in which no worker has sent a snapshot, that is, in
\* which no line has matched.
C18_WaitsTotalWithoutMatch ==
    (Completed /\ args.verbose /\ stdout = <<>>) => stats.waits = WaitsOf(DOMAIN wstats)

\* A completed --verbose run in which one idle-polling hit has been added to
\* the total twice, by a snapshot and by the final stats of the same worker.
C18_WaitCountedTwice ==
    /\ Completed /\ args.verbose /\ threadnum = 1
    /\ wstats[1].waits = 1 /\ stats.waits = 2

\* The worker's step has appended a record to its output.
Appended(w) == wout'[w] # wout[w] \/ stdout' # stdout

\* C19 (exact matcher is equality): whenever a worker handles a line with
\* --exact and without --regex, find returns true if and only if the line is
\* the value, byte for byte, and the line is appended to the output if and
\* only if it is.
C19_ExactIsEquality ==
    [][\A w \in DOMAIN wpc :
          (WorkerLine(w) /\ args.exact /\ ~args.regex) =>
              LET clear == Head(wclears[w])
              IN  /\ find(parse_tofind(args.tofind), clear) <=> (clear = args.tofind)
                  /\ Appended(w) <=> (clear = args.tofind)]_vars

\* With --exact, a line equal to the two-byte value has been written.
C19_ExactFound ==
    /\ args.exact /\ ~args.regex /\ args.tofind = <<97, 98>>
    /\ stdout = <<97, 98, NL>>

\* With --exact, a line that is longer than the value and starts with it has
\* been scanned and no record has been written.
C19_ExactLongerLineRejected ==
    /\ args.exact /\ ~args.regex /\ args.tofind = <<97, 98>>
    /\ file = <<97, 98, 98>> /\ Completed /\ stdout = <<>> /\ taken # {}

\* C20 (substring matcher is containment): whenever a worker handles a line
\* without --regex and without --exact, the line is found, and appended to
\* the output, if and only if the value occurs in it as a contiguous run of
\* bytes; a line shorter than the value is not appended.
C20_SubstringIsContainment ==
    [][\A w \in DOMAIN wpc :
          (WorkerLine(w) /\ ~args.exact /\ ~args.regex) =>
              LET clear == Head(wclears[w])
              IN  /\ Found(clear) <=> Contains(clear, args.tofind)
                  /\ Appended(w) <=> Contains(clear, args.tofind)
                  /\ Len(clear) < Len(args.tofind) => ~Appended(w)]_vars

\* In substring mode, a line in which the two-byte value starts at the
\* second byte has been written.
C20_SubstringFound ==
    /\ ~args.exact /\ ~args.regex /\ args.tofind = <<97, 98>>
    /\ stdout = <<98, 97, 98, NL>>

\* C21 (output buffering): what a worker has written to standard output,
\* followed by what its buffer holds, is the concatenation in order of the
\* records it has appended, each once; when it has exited, what it has written
\* alone is; between two lines the buffer holds fewer than OutCap bytes; a
\* write while a chunk is scanned writes the whole buffer and leaves it empty.
C21_OutputBuffering ==
    /\ [](\A w \in DOMAIN wpc :
              /\ wpc[w] # "exited" => wwritten[w] \o wout[w] = wapp[w]
              /\ wpc[w] = "exited" => wwritten[w] = wapp[w]
              /\ Len(wout[w]) < OutCap)
    /\ [][\A w \in DOMAIN wpc :
              (wpc[w] = "scan" /\ wwritten'[w] # wwritten[w]) =>
                  (/\ wout'[w] = <<>>
                   /\ Len(wapp'[w]) - Len(wwritten[w]) >= OutCap
                   /\ wwritten'[w] = wapp'[w]
                   /\ stdout' = stdout \o wout[w] \o Record(args.position,
                                     wpos'[w], Head(wclears[w])))]_vars

\* A worker has exited after a write at the threshold, of two records that
\* make OutCap bytes, and a write on the sentinel, of the third record.
C21_FlushedTwice ==
    /\ file = BufferFile /\ wpc # <<>> /\ wpc[1] = "exited"
    /\ Len(wwritten[1]) = OutCap + 2
    /\ wout[1] = <<97, NL>>
    /\ stdout = wapp[1]

\* The byte at offset b has been copied into a chunk that has been enqueued.
Copied(b, msgs) == \E m \in msgs : m.pos <= b /\ b < ChunkStop(m)

\* C22 (eviction of consumed bytes only): a sliding-window step is made only
\* while the cache point is before the end of the file; it first calls
\* uncache with the Dispatcher's cursor, then cache_file from the cache
\* point; every byte before the cursor has been copied into an enqueued chunk.
C22_EvictConsumedOnly ==
    /\ [](oscalls # <<>> =>
              /\ Len(oscalls) = 2
              /\ oscalls[1].op = "uncache" /\ oscalls[1].arg = evicted
              /\ oscalls[2].op = "cache_file"
              /\ evicted <= pos)
    /\ [][(/\ pcMain = "read_wordlist"
            /\ (oscalls' # oscalls \/ evicted' # evicted \/ cache_point' # cache_point)) =>
              (/\ Dispatch
               /\ cache_point < length
               /\ oscalls'[1] = [op |-> "uncache", arg |-> pos']
               /\ oscalls'[2] = [op |-> "cache_file", arg |-> cache_point]
               /\ evicted' = pos'
               /\ \A b \in 0 .. pos' - 1 : Copied(b, sent'))]_vars

\* The sliding window has made a step with the cursor past the first chunk:
\* the bytes of several chunks have been dropped from the page cache.
C22_SteppedPastFirstChunk ==
    /\ oscalls # <<>> /\ evicted > args.shard + 1 /\ cache_point < length
    /\ Cardinality(sent) > 2

====
